---- MODULE Spec2Model ----
(***************************************************************************)
(* A model of the Surveillance scene interpreter (layers/scene.py,         *)
(* SceneInterpreterV1) and of the signal/state cache of the activity       *)
(* state estimator (activities/state.py, Base).                            *)
(*                                                                         *)
(* Images are flattened to the pixels 1..NPix.  A boolean mask is the set  *)
(* of its True pixels.  Depths and heights are fixed-point integers, one   *)
(* unit being 1e-4 m, so that 1e-3 is 10 and 0.5 is 5000.  A Python value  *)
(* that may be None is a sequence of length at most one.                   *)
(***************************************************************************)
EXTENDS Integers, Sequences, FiniteSets, TLC

\* ------------------------------------------------------------------ bounds
NPix == 2

Pixels == 1..NPix

None == <<>>
Some(x) == <<x>>
Val(o) == o[1]

Abs(x) == IF x < 0 THEN -x ELSE x

\* ---------------------------------------------------------- scene: inputs
\* 1e-3 and 0.5 of scene.py, in units of 1e-4 m
DepthEps == 10
HeightCeiling == 5000

\* depth readings a sensor frame may hold (units of 1e-4 m)
DepthVals == {-10, 5, 10, 8000, 8001, 23000}
\* reference depths of the calibrated empty table
RefVals == {3000, 20000}

\* a frame whose first pixel reads a and whose other pixels read b
Frame(a, b) == [p \in Pixels |-> IF p = 1 THEN a ELSE b]
DepthFrames == {Frame(a, b) : a \in DepthVals, b \in {23000}}
               \cup {Frame(a, a) : a \in DepthVals}

Masks == SUBSET Pixels
Imgs == {"rgb"}
Black == "black"

\* the homography: a pixel q of the warped image shows pixel Reverse[q]
Reverse == [p \in Pixels |-> NPix + 1 - p]

VARIABLES
    BEV_trans_mat,   \* params.BEV_trans_mat
    ref_depth,       \* the calibrated reference of height_estimator
    rgb_img, depth, height_map,
    bg_mask, human_mask, robot_mask, puzzle_mask,
    human_seg,       \* [mask, height_map] of the human segmenter
    robot_seg,       \* [mask, height_map] of the robot segmenter
    bg_seg,          \* [mask] of the background segmenter
    puzzle_seg,      \* [mask, detected_masks] of the puzzle segmenter
    raw_robot,       \* the mask robot_seg detected, before it is edited in place
    composed,        \* the four stored masks as the last process() that returned left them
    tracker,         \* per layer, the tpt of the segmenter's tracker, or None without one
    ret,             \* [op, status, value] of the call that ran last
    \* activities/state.py, Base
    signal_number, state_number, signal_cache_limit, state_cache_limit,
    signal_cache_count, state_cache_count, signals_cache, states_cache,
    parse_kind,      \* which parse() the concrete estimator overrides Base.parse with
    offered          \* the well-dimensioned signals measure() was called with, in order

sceneVars == <<BEV_trans_mat, ref_depth, rgb_img, depth, height_map,
               bg_mask, human_mask, robot_mask, puzzle_mask,
               human_seg, robot_seg, bg_seg, puzzle_seg, raw_robot, composed, tracker>>

cacheVars == <<signal_number, state_number, signal_cache_limit, state_cache_limit,
               signal_cache_count, state_cache_count, signals_cache, states_cache,
               parse_kind, offered>>

vars == <<sceneVars, cacheVars, ret>>

\* ------------------------------------------------- scene: HeightEstimator
\* height_estimator.apply(depth): signed offset from the reference
HeightEstimator_apply(ref, d) == [p \in Pixels |-> ref[p] - d[p]]

np_abs_dropped(a) == a

\* np.abs, elementwise
np_abs(a) == [p \in Pixels |-> Abs(a[p])]

\* the height map process_depth stores
HeightMapOf(ref, d) == np_abs(HeightEstimator_apply(ref, d))

\* ---------------------------------------------------------- scene: nonROI
zeros_like == {}

\* mask[np.abs(self.depth) < 1e-3] = 1
nonROI_depth(mask, d) == mask \cup {p \in Pixels : Abs(d[p]) < DepthEps}

nonROI_height_inclusive(mask, h) == mask \cup {p \in Pixels : h[p] >= HeightCeiling}

\* mask[self.height_map > 0.5] = 1
nonROI_height(mask, h) == mask \cup {p \in Pixels : h[p] > HeightCeiling}

nonROI(d, h) == nonROI_height(nonROI_depth(zeros_like, d), h)

nonROI_ready == height_map # None /\ depth # None

\* ----------------------------------------------------- scene: composition
MergeNonROI_dropped(bg, nr) == bg

\* self.bg_mask = self.bg_mask | nonROI_mask
MergeNonROI(bg, nr) == bg \cup nr

TrustHuman_dropped(bg, human) == bg

\* self.bg_mask = self.bg_mask & (~self.human_mask)
TrustHuman(bg, human) == bg \ human

\* mask[sel] = False, in place
ClearWhere(mask, sel) == mask \ sel

DemoteRobot_human_only(robot, human, bg) == ClearWhere(robot, human)

\* self.robot_mask[self.human_mask] = False; self.robot_mask[self.bg_mask] = False
DemoteRobot(robot, human, bg) == ClearWhere(ClearWhere(robot, human), bg)

DetectedMasks_no_robot(bg, human, robot) == <<bg, human, {}>>

\* the list handed to puzzle_seg.set_detected_masks
DetectedMasks(bg, human, robot) == <<bg, human, robot>>

\* puzzle_seg.process: what no detected mask explains, which its own filter keeps
\* (keep = every pixel) or drops (keep = no pixel)
Puzzle_Residual_process(detected, keep) ==
    (Pixels \ (detected[1] \cup detected[2] \cup detected[3])) \cap keep

\* ------------------------------------------------------- scene: get_layer
LayerNames == {"bg", "human", "robot", "puzzle"}

\* names a caller may pass
NameInputs == LayerNames \cup {"banana", "table"}

KnownLayer_short(layer_name) == layer_name \in {"bg", "human", "robot"}

\* assert layer_name in ["bg", "human", "robot", "puzzle"]
KnownLayer(layer_name) == layer_name \in LayerNames

NeedsTransform_always(BEV_rectify) == TRUE

\* if BEV_rectify: the homography is read
NeedsTransform(BEV_rectify) == BEV_rectify

\* eval("self."+layer_name+"_mask")
MaskOf(layer_name) ==
    CASE layer_name = "bg" -> bg_mask
      [] layer_name = "human" -> human_mask
      [] layer_name = "robot" -> robot_mask
      [] layer_name = "puzzle" -> puzzle_mask

\* mask[:,:,np.newaxis].astype(np.uint8) * self.rgb_img
Content(mask, img) == [p \in Pixels |-> IF p \in mask THEN img ELSE Black]

\* a mask as the image warpPerspective is given, and back (astype)
AsImage(mask) == [p \in Pixels |-> IF p \in mask THEN 1 ELSE 0]
AsBool(image) == {p \in Pixels : image[p] # 0}

\* cv2.warpPerspective(layer, M, size)
warpPerspective(layer, M) == [q \in Pixels |-> layer[M[q]]]

Failed(status) == [status |-> status, layer |-> None]

\* get_layer(layer_name, mask_only, BEV_rectify): the outcome and the layer
get_layer(layer_name, mask_only, BEV_rectify) ==
    IF ~KnownLayer(layer_name) THEN Failed("UnknownLayer")
    ELSE LET mask == MaskOf(layer_name) IN
         IF ~mask_only /\ mask = None THEN Failed("TypeError")
         ELSE IF NeedsTransform(BEV_rectify) /\ BEV_trans_mat = None
              THEN Failed("NoTransformConfigured")
         ELSE IF mask = None THEN Failed("AttributeError")
         ELSE LET layer == IF mask_only THEN AsImage(Val(mask))
                           ELSE Content(Val(mask), Val(rgb_img))
                  out == IF BEV_rectify
                         THEN warpPerspective(layer, Val(BEV_trans_mat))
                         ELSE layer
              IN [status |-> "ok",
                  layer |-> Some(IF mask_only THEN AsBool(out) ELSE out)]

\* ----------------------------------------------------------- scene: steps
Called(op, status) == [op |-> op, status |-> status, value |-> None]
Returned(op, value) == [op |-> op, status |-> "ok", value |-> Some(value)]

process_depth(d) ==
    /\ depth' = Some(d)
    /\ height_map' = Some(HeightMapOf(ref_depth, d))
    /\ human_seg' = [human_seg EXCEPT !.height_map = height_map']
    /\ robot_seg' = [robot_seg EXCEPT !.height_map = height_map']
    /\ ret' = Called("process_depth", "ok")
    /\ UNCHANGED <<BEV_trans_mat, ref_depth, rgb_img, bg_mask, human_mask, robot_mask,
                   puzzle_mask, bg_seg, puzzle_seg, raw_robot, composed, tracker>>
    /\ UNCHANGED cacheVars

\* the segmenters run in this order; failAt names the one whose process raises
Human == 1
Bg == 2
Robot == 3
Puzzle == 4
NoFailure == 5

\* A segmenter whose process() raises keeps the mask it had.  robot_seg.get_mask()
\* returns the segmenter's own array, which lines 131-132 edit in place.
process(img, rawH, rawB, rawR, keep, failAt) ==
    /\ rgb_img' = Some(img)
    /\ IF ~nonROI_ready
       THEN /\ ret' = Called("process", "AssertionError")
            /\ UNCHANGED <<bg_mask, human_mask, robot_mask, puzzle_mask, human_seg,
                           robot_seg, bg_seg, puzzle_seg, raw_robot, composed>>
       ELSE LET nonROI_mask == nonROI(Val(depth), Val(height_map))
                bg == TrustHuman(MergeNonROI(rawB, nonROI_mask), rawH)
                robot == DemoteRobot(rawR, rawH, bg)
                detected == DetectedMasks(bg, rawH, robot)
                puzzle == Puzzle_Residual_process(detected, keep)
            IN /\ human_seg' = IF failAt > Human
                               THEN [human_seg EXCEPT !.mask = Some(rawH)]
                               ELSE human_seg
               /\ human_mask' = IF failAt > Human THEN Some(rawH) ELSE human_mask
               /\ bg_seg' = IF failAt > Bg THEN [bg_seg EXCEPT !.mask = Some(rawB)]
                            ELSE bg_seg
               /\ bg_mask' = IF failAt > Bg THEN Some(bg) ELSE bg_mask
               /\ raw_robot' = IF failAt > Robot THEN Some(rawR) ELSE raw_robot
               /\ robot_seg' = IF failAt > Robot
                               THEN [robot_seg EXCEPT !.mask = Some(robot)]
                               ELSE robot_seg
               /\ robot_mask' = IF failAt > Robot THEN Some(robot) ELSE robot_mask
               /\ puzzle_seg' =
                    IF failAt > Puzzle
                    THEN [mask |-> Some(puzzle), detected_masks |-> Some(detected)]
                    ELSE IF failAt = Puzzle
                    THEN [puzzle_seg EXCEPT !.detected_masks = Some(detected)]
                    ELSE puzzle_seg
               /\ puzzle_mask' = IF failAt > Puzzle THEN Some(puzzle) ELSE puzzle_mask
               /\ composed' = IF failAt = NoFailure
                              THEN Some(<<bg_mask', human_mask', robot_mask', puzzle_mask'>>)
                              ELSE composed
               /\ ret' = IF failAt = NoFailure THEN Called("process", "ok")
                         ELSE Called("process", "SegmenterError")
    /\ UNCHANGED <<BEV_trans_mat, ref_depth, depth, height_map, tracker>>
    /\ UNCHANGED cacheVars

nonROI_call ==
    /\ ret' = IF nonROI_ready
              THEN Returned("nonROI", nonROI(Val(depth), Val(height_map)))
              ELSE Called("nonROI", "AssertionError")
    /\ UNCHANGED <<sceneVars, cacheVars>>

get_layer_call(layer_name, mask_only, BEV_rectify) ==
    /\ ret' = Called("get_layer", get_layer(layer_name, mask_only, BEV_rectify).status)
    /\ UNCHANGED <<sceneVars, cacheVars>>

NoSeg == [mask |-> None, height_map |-> None]

\* the state after SceneInterpreterV1.__init__, for a homography (or None) among
\* bevs and a height estimator calibrated on a flat table at a depth among refs
SceneInit(bevs, refs) ==
    /\ BEV_trans_mat \in bevs
    /\ ref_depth \in {Frame(a, a) : a \in refs}
    /\ rgb_img = None /\ depth = None /\ height_map = None
    /\ bg_mask = None /\ human_mask = None
    /\ robot_mask = None /\ puzzle_mask = None
    /\ human_seg = NoSeg /\ robot_seg = NoSeg
    /\ bg_seg = [mask |-> None]
    /\ puzzle_seg = [mask |-> None, detected_masks |-> None]
    /\ raw_robot = None
    /\ composed = None
    /\ ret = Called("init", "ok")

\* segmenters built without a tracker
Untracked == tracker = [n \in LayerNames |-> None]

\* no estimator is built
CacheIdle ==
    /\ signal_number = 0 /\ state_number = 0
    /\ signal_cache_limit = 0 /\ state_cache_limit = 0
    /\ signal_cache_count = 0 /\ state_cache_count = 0
    /\ signals_cache = <<>> /\ states_cache = <<>>
    /\ parse_kind = "none" /\ offered = <<>>

\* whole-image masks: nothing or everything
CoarseMasks == {{}, Pixels}

\* a mask a segmenter that ran returns; the masks of those that did not run
\* are never read
RawOf(masks, ran) == IF ran THEN masks ELSE {{}}

DepthStep(frames) == \E d \in frames : process_depth(d)

ProcessStep(masks, fails) ==
    \E img \in Imgs, failAt \in fails :
    \E rawH \in RawOf(masks, failAt > Human), rawB \in RawOf(masks, failAt > Bg),
       rawR \in RawOf(masks, failAt > Robot), keep \in RawOf(CoarseMasks, failAt > Puzzle) :
       process(img, rawH, rawB, rawR, keep, failAt)

GetLayerStep ==
    \E n \in NameInputs, m \in BOOLEAN, r \in BOOLEAN : get_layer_call(n, m, r)

\* a frame at the table's nominal distance, and one whose first pixel has no reading
ComposeFrames == {Frame(23000, 23000), Frame(5, 23000)}

\* Spec: frame composition, over every combination of raw masks, with segmenters
\* that return.  A process() that returns overwrites every mask and segmenter
\* field, so the states it ends in are the same whatever failed before.
Init == SceneInit({None}, {20000}) /\ Untracked /\ CacheIdle

Next ==
    \/ DepthStep(ComposeFrames)
    \/ ProcessStep(Masks, {NoFailure})
    \/ nonROI_call

Spec == Init /\ [][Next]_vars

\* SpecDepth: every depth frame against both reference tables
InitDepth == SceneInit({None}, RefVals) /\ Untracked /\ CacheIdle

NextDepth ==
    \/ DepthStep(DepthFrames)
    \/ ProcessStep(CoarseMasks, {NoFailure})
    \/ nonROI_call

SpecDepth == InitDepth /\ [][NextDepth]_vars

\* SpecQuery: segmenters that may raise, and the layer queries, with and without
\* a homography
InitQuery == SceneInit({None, Some(Reverse)}, {20000}) /\ Untracked /\ CacheIdle

NextQuery ==
    \/ DepthStep({Frame(23000, 23000)})
    \/ ProcessStep(CoarseMasks, Human..NoFailure)
    \/ nonROI_call
    \/ GetLayerStep

SpecQuery == InitQuery /\ [][NextQuery]_vars

\* ------------------------------------------------- scene: visualisation
\* the point sets a tracker holds: one piece, or two
TrackPts == {<<1>>, <<1, 2>>}

\* tracker.getState(): a new state object whose tpt is the tracker's own array
getState(tpt) == [tpt |-> tpt]

\* cv2.perspectiveTransform: every point through the homography; with Reverse,
\* the point lands on the pixel of the warped image that shows it
perspectiveTransform(pts, M) == [i \in 1..Len(pts) |-> M[pts[i]]]

rectify_state_in_place(state, M) ==
    [state |-> [state EXCEPT !.tpt = perspectiveTransform(state.tpt, M)],
     shared |-> perspectiveTransform(state.tpt, M)]

\* state.tpt = cv2.perspectiveTransform(state.tpt..., BEV_trans_mat)...: the
\* transform builds a new array and the assignment rebinds the field of the state
\* object; shared is the array the tracker still holds
rectify_state(state, M) ==
    [state |-> [state EXCEPT !.tpt = perspectiveTransform(state.tpt, M)],
     shared |-> state.tpt]

\* what a rectified visualisation handed on: the layer and the points it drew
Drawn(layer_name, state) == [layer |-> layer_name, tpt |-> state.tpt]

vis_layer(layer_name, mask_only, BEV_rectify) ==
    /\ IF ~KnownLayer(layer_name)
       THEN /\ ret' = Called("vis_layer", "UnknownLayer")
            /\ UNCHANGED tracker
       ELSE IF ~BEV_rectify
       THEN /\ ret' = Called("vis_layer", "ok")
            /\ UNCHANGED tracker
       ELSE LET got == get_layer(layer_name, mask_only, BEV_rectify) IN
            IF got.status # "ok"
            THEN /\ ret' = Called("vis_layer", got.status)
                 /\ UNCHANGED tracker
            ELSE IF tracker[layer_name] = None
            THEN /\ ret' = Called("vis_layer", "ok")
                 /\ UNCHANGED tracker
            ELSE LET done == rectify_state(getState(Val(tracker[layer_name])),
                                           Val(BEV_trans_mat))
                 IN /\ tracker' = [tracker EXCEPT ![layer_name] = Some(done.shared)]
                    /\ ret' = Returned("vis_layer", Drawn(layer_name, done.state))
    /\ UNCHANGED <<BEV_trans_mat, ref_depth, rgb_img, depth, height_map, bg_mask,
                   human_mask, robot_mask, puzzle_mask, human_seg, robot_seg, bg_seg,
                   puzzle_seg, raw_robot, composed>>
    /\ UNCHANGED cacheVars

\* vis_puzzles reads neither of its flags: it always rectifies.  A point set of
\* one piece is squeezed to one dimension, and centroids[1,:] then raises.
vis_puzzles ==
    /\ IF rgb_img = None
       THEN /\ ret' = Called("vis_puzzles", "TypeError")
            /\ UNCHANGED tracker
       ELSE IF BEV_trans_mat = None
       THEN /\ ret' = Called("vis_puzzles", "cv2.error")
            /\ UNCHANGED tracker
       ELSE LET got == get_layer("puzzle", TRUE, TRUE) IN
            IF got.status # "ok"
            THEN /\ ret' = Called("vis_puzzles", got.status)
                 /\ UNCHANGED tracker
            ELSE IF tracker["puzzle"] = None
            THEN /\ ret' = Called("vis_puzzles", "AttributeError")
                 /\ UNCHANGED tracker
            ELSE LET done == rectify_state(getState(Val(tracker["puzzle"])),
                                           Val(BEV_trans_mat))
                 IN /\ tracker' = [tracker EXCEPT !["puzzle"] = Some(done.shared)]
                    /\ ret' = IF Len(done.state.tpt) = 1
                              THEN Called("vis_puzzles", "IndexError")
                              ELSE Returned("vis_puzzles", Drawn("puzzle", done.state))
    /\ UNCHANGED <<BEV_trans_mat, ref_depth, rgb_img, depth, height_map, bg_mask,
                   human_mask, robot_mask, puzzle_mask, human_seg, robot_seg, bg_seg,
                   puzzle_seg, raw_robot, composed>>
    /\ UNCHANGED cacheVars

\* the tracker of a layer measures its points anew
tracker_measure(layer_name, pts) ==
    /\ tracker[layer_name] # None
    /\ tracker[layer_name] # Some(pts)
    /\ tracker' = [tracker EXCEPT ![layer_name] = Some(pts)]
    /\ ret' = Called("tracker_measure", "ok")
    /\ UNCHANGED <<BEV_trans_mat, ref_depth, rgb_img, depth, height_map, bg_mask,
                   human_mask, robot_mask, puzzle_mask, human_seg, robot_seg, bg_seg,
                   puzzle_seg, raw_robot, composed>>
    /\ UNCHANGED cacheVars

\* segmenters built with or without a tracker
Tracked == tracker \in [LayerNames -> {None} \cup {Some(t) : t \in TrackPts}]

VisLayerStep ==
    \E n \in NameInputs, m \in BOOLEAN, r \in BOOLEAN : vis_layer(n, m, r)

TrackStep == \E n \in LayerNames, pts \in TrackPts : tracker_measure(n, pts)

\* SpecVis: the visualisations of composed frames, with and without a homography
InitVis == SceneInit({None, Some(Reverse)}, {20000}) /\ Tracked /\ CacheIdle

NextVis ==
    \/ DepthStep({Frame(23000, 23000)})
    \/ ProcessStep(CoarseMasks, {NoFailure})
    \/ VisLayerStep
    \/ vis_puzzles
    \/ TrackStep

SpecVis == InitVis /\ [][NextVis]_vars

\* ------------------------------------------------------ state.py: inputs
MaxDim == 2
MaxCap == 2
MaxAppends == 4

\* the values a signal or a state takes
Vals == {0, 1}

\* arrays of n values
Arrays(n) == [1..n -> Vals]

\* what a caller may hand to measure(): also one value too many
SignalInputs == UNION {Arrays(n) : n \in 1..(MaxDim + 1)}

Min(a, b) == IF a < b THEN a ELSE b
Max(a, b) == IF a < b THEN b ELSE a

\* -------------------------------------------------------- state.py: Base
\* np.empty((rows, cols)): the cells hold whatever the memory held, here junk
np_empty(rows, cols, junk) == [r \in 1..rows |-> [c \in 1..cols |-> junk]]

\* parse() of the concrete estimator (Base.parse raises NotImplementedError):
\* state_number values read off the signals, as they are or inverted
parse(kind, cur_signals, n_states) ==
    [i \in 1..n_states |->
        LET v == cur_signals[((i - 1) % Len(cur_signals)) + 1]
        IN IF kind = "copy" THEN v ELSE 1 - v]

Stored(cache) == [cache |-> cache, err |-> "ok"]
Raised(cache, err) == [cache |-> cache, err |-> err]

\* cache[i, :] = new, for the 0-based row i and a 1-d array new
set_row(cache, i, new) ==
    IF i >= Len(cache) THEN Raised(cache, "IndexError")
    ELSE LET cols == Len(cache[1]) IN
         IF Len(new) = cols THEN Stored([cache EXCEPT ![i + 1] = new])
         ELSE IF Len(new) = 1
         THEN Stored([cache EXCEPT ![i + 1] = [c \in 1..cols |-> new[1]]])
         ELSE Raised(cache, "ValueError")

\* cache[:num_limit-1, :] = cache[1:num_limit, :]
shift_rows(cache, num_limit) ==
    LET rows == Len(cache)
        into == Min(num_limit - 1, rows)
        from == Max(Min(num_limit, rows) - 1, 0)
    IN IF into = from
       THEN Stored([r \in 1..rows |-> IF r <= into THEN cache[r + 1] ELSE cache[r]])
       ELSE IF from = 1
       THEN Stored([r \in 1..rows |-> IF r <= into THEN cache[2] ELSE cache[r]])
       ELSE Raised(cache, "ValueError")

append_with_number_limit(cache, new, num_limit, cur_count) ==
    IF cur_count < num_limit
    THEN set_row(cache, cur_count, new)
    ELSE LET shifted == shift_rows(cache, num_limit) IN
         IF shifted.err # "ok" THEN shifted
         ELSE set_row(shifted.cache, num_limit - 1, new)

\* update(self, cur_signals, cur_states): both caches, and what was raised
update(cur_signals, cur_states) ==
    LET a == append_with_number_limit(signals_cache, cur_signals,
                                      signal_cache_limit, signal_cache_count)
        b == append_with_number_limit(states_cache, cur_states,
                                      state_cache_limit, state_cache_count)
    IN IF a.err # "ok"
       THEN [signals_cache |-> a.cache, states_cache |-> states_cache, err |-> a.err]
       ELSE [signals_cache |-> a.cache, states_cache |-> b.cache, err |-> b.err]

measure(cur_signals) ==
    /\ Len(offered) < MaxAppends
    /\ IF Len(cur_signals) # signal_number
       THEN /\ ret' = Called("measure", "AssertionError")
            /\ UNCHANGED <<signals_cache, states_cache, signal_cache_count,
                           state_cache_count, offered>>
       ELSE LET cur_states == parse(parse_kind, cur_signals, state_number)
                done == update(cur_states, cur_signals)
            IN /\ signals_cache' = done.signals_cache
               /\ states_cache' = done.states_cache
               /\ signal_cache_count' =
                     IF done.err = "ok" THEN signal_cache_count + 1 ELSE signal_cache_count
               /\ state_cache_count' =
                     IF done.err = "ok" THEN state_cache_count + 1 ELSE state_cache_count
               /\ offered' = Append(offered, cur_signals)
               /\ ret' = Called("measure", done.err)
    /\ UNCHANGED <<signal_number, state_number, signal_cache_limit, state_cache_limit,
                   parse_kind>>
    /\ UNCHANGED sceneVars

\* the state after __init__ of an estimator that derives from Base, declares
\* signal_names and state_names and overrides parse
CacheInit ==
    /\ signal_number \in 1..MaxDim /\ state_number \in 1..MaxDim
    /\ signal_cache_limit \in 1..MaxCap /\ state_cache_limit \in 1..MaxCap
    /\ signal_cache_count = 0 /\ state_cache_count = 0
    /\ \E junk \in Vals :
          signals_cache = np_empty(signal_number, signal_cache_limit, junk)
    /\ \E junk \in Vals :
          states_cache = np_empty(state_number, state_cache_limit, junk)
    /\ parse_kind \in {"copy", "invert"}
    /\ offered = <<>>

\* SpecCache: an estimator fed signals
InitCache == SceneInit({None}, {20000}) /\ Untracked /\ CacheInit

NextCache == \E cur_signals \in SignalInputs : measure(cur_signals)

SpecCache == InitCache /\ [][NextCache]_vars

\* ================================================================== claims
\* process() returned, and nothing was called since
Composed == ret = Called("process", "ok")

StoredMasks == <<bg_mask, human_mask, robot_mask, puzzle_mask>>

\* C1: after a process() that returned, no pixel is in two of the stored human,
\* background and robot masks.
C1_PairwiseDisjoint ==
    Composed =>
        /\ Val(human_mask) \cap Val(bg_mask) = {}
        /\ Val(human_mask) \cap Val(robot_mask) = {}
        /\ Val(bg_mask) \cap Val(robot_mask) = {}

\* the three raw masks overlapped pairwise, on a pixel that is not non-ROI
C1_Witness ==
    /\ Composed
    /\ \E p \in Pixels :
          /\ p \in Val(human_seg.mask) /\ p \in Val(bg_seg.mask) /\ p \in Val(raw_robot)
          /\ Abs(Val(depth)[p]) >= DepthEps /\ Val(height_map)[p] <= HeightCeiling

\* the non-ROI test of a pixel, on the depth frame and height map now stored
IsNonROI(p) == Abs(Val(depth)[p]) < DepthEps \/ Val(height_map)[p] > HeightCeiling

\* C2: after process(), a pixel is in the stored background mask exactly when the
\* raw background mask or the non-ROI mask has it and the human mask does not; with
\* human raw mask R1, background raw mask R1 \cup R2 and no non-ROI pixel the stored
\* background mask is R2; a non-ROI pixel the human mask lacks is background.
C2_BackgroundRule ==
    Composed =>
        /\ \A p \in Pixels :
              p \in Val(bg_mask) <=>
                  (p \in Val(bg_seg.mask) \/ IsNonROI(p)) /\ p \notin Val(human_mask)
        /\ \A R1 \in Masks, R2 \in Masks :
              ( /\ R1 \cap R2 = {}
                /\ Val(human_mask) = R1
                /\ Val(bg_seg.mask) = R1 \cup R2
                /\ \A p \in Pixels : ~IsNonROI(p) ) => Val(bg_mask) = R2
        /\ \A p \in Pixels :
              IsNonROI(p) /\ p \notin Val(human_mask) => p \in Val(bg_mask)

\* the human mask is R1, the raw background mask R1 \cup R2, both not empty, no
\* pixel is non-ROI, and the stored background mask is R2
C2_Witness ==
    /\ Composed
    /\ \A p \in Pixels : ~IsNonROI(p)
    /\ Val(human_mask) # {}
    /\ Val(human_mask) \subseteq Val(bg_seg.mask)
    /\ Val(bg_seg.mask) \ Val(human_mask) # {}
    /\ Val(bg_mask) = Val(bg_seg.mask) \ Val(human_mask)

\* C3: after process(), the stored robot mask is the raw robot mask less the human
\* mask, then less the stored background mask; the other order of the two
\* subtractions and the single test "raw and not (human or background)" give the
\* same mask.
C3_RobotRule ==
    Composed =>
        LET raw == Val(raw_robot)
            human == Val(human_mask)
            bg == Val(bg_mask)
        IN /\ Val(robot_mask) = (raw \ human) \ bg
           /\ Val(robot_mask) = (raw \ bg) \ human
           /\ Val(robot_mask) = {p \in raw : ~(p \in human \/ p \in bg)}
           /\ Val(robot_seg.mask) = Val(robot_mask)

\* the raw robot mask lost a pixel to the human mask and another to the background
C3_Witness ==
    /\ Composed
    /\ Val(raw_robot) \cap Val(human_mask) # {}
    /\ Val(raw_robot) \cap Val(bg_mask) # {}

\* C4: the mask nonROI() returns has a pixel exactly when its depth magnitude is
\* below 1e-3 or its height is above 0.5, whatever frames came before.
C4_NonROIRule ==
    (ret.op = "nonROI" /\ ret.status = "ok") =>
        \A p \in Pixels :
            p \in Val(ret.value) <=>
                (Abs(Val(depth)[p]) < DepthEps \/ Val(height_map)[p] > HeightCeiling)

\* a pixel at exactly the ceiling, with a valid depth, is left out
C4_Witness ==
    /\ ret.op = "nonROI" /\ ret.status = "ok"
    /\ \E p \in Pixels :
          /\ Val(height_map)[p] = HeightCeiling
          /\ Abs(Val(depth)[p]) >= DepthEps
          /\ p \notin Val(ret.value)
    /\ \E p \in Pixels : p \in Val(ret.value)

\* C5: after process(), the stored puzzle mask shares no pixel with the stored
\* background, human and robot masks; the puzzle segmenter holds those three stored
\* masks as its detected masks, and the stored puzzle mask is the one it computed.
C5_ResidualDisjoint ==
    Composed =>
        /\ Val(puzzle_mask) \cap
              (Val(bg_mask) \cup Val(human_mask) \cup Val(robot_mask)) = {}
        /\ puzzle_seg.detected_masks =
              Some(<<Val(bg_mask), Val(human_mask), Val(robot_mask)>>)
        /\ puzzle_mask = puzzle_seg.mask

\* the puzzle segmenter found a residual next to a pixel of the robot mask
C5_Witness ==
    /\ Composed
    /\ Val(puzzle_mask) # {}
    /\ Val(robot_mask) # {}

\* C6: the signal cache has min(N, C) items after N appends, and they are the last
\* min(N, C) signals appended, oldest first.
C6_RingContents ==
    parse_kind # "none" =>
        LET N == Len(offered)
            C == signal_cache_limit
            K == Min(N, C)
        IN /\ Min(signal_cache_count, C) = K
           /\ \A i \in 1..K : signals_cache[i] = offered[N - K + i]

\* C7: a process() that fails leaves the four stored masks as the last process()
\* that returned left them.
C7_FailureKeepsSnapshot ==
    (ret.op = "process" /\ ret.status # "ok" /\ composed # None) =>
        StoredMasks = Val(composed)

\* C8: the stored height map is |reference - depth| at every pixel, is what the
\* human and robot segmenters were given, and for a reference of 2.0 and a depth
\* of 2.3 everywhere it is 0.3 everywhere with an empty non-ROI mask.
C8_HeightRule ==
    height_map # None =>
        /\ \A p \in Pixels :
              /\ Val(height_map)[p] >= 0
              /\ \/ Val(height_map)[p] = ref_depth[p] - Val(depth)[p]
                 \/ Val(height_map)[p] = Val(depth)[p] - ref_depth[p]
        /\ human_seg.height_map = height_map
        /\ robot_seg.height_map = height_map
        /\ ( /\ \A p \in Pixels : ref_depth[p] = 20000
             /\ \A p \in Pixels : Val(depth)[p] = 23000 ) =>
                /\ \A p \in Pixels : Val(height_map)[p] = 3000
                /\ nonROI(Val(depth), Val(height_map)) = {}

\* process_depth ran on the 2.0 / 2.3 frames
C8_Witness ==
    /\ ret.op = "process_depth"
    /\ \A p \in Pixels : ref_depth[p] = 20000 /\ Val(depth)[p] = 23000

\* C9: whatever the interpreter holds and whatever mask_only and BEV_rectify are,
\* get_layer fails on the layer-name check exactly for the names outside bg,
\* human, robot, puzzle; and a get_layer call changes nothing the interpreter stores.
C9_NameCheck ==
    \A n \in NameInputs, m \in BOOLEAN, r \in BOOLEAN :
        get_layer(n, m, r).status = "UnknownLayer" <=>
            n \notin {"bg", "human", "robot", "puzzle"}

C9_NoEffect == [][ret'.op = "get_layer" => UNCHANGED sceneVars]_vars

C9_UnknownLayer == []C9_NameCheck /\ C9_NoEffect

\* an unknown name was refused by an interpreter that holds composed masks
C9_Witness ==
    /\ ret = Called("get_layer", "UnknownLayer")
    /\ composed # None

\* C10 as stated: without a homography, every rectified get_layer of a valid layer
\* fails with NoTransformConfigured.
C10_AlwaysNoTransform ==
    BEV_trans_mat = None =>
        \A n \in LayerNames, m \in BOOLEAN :
            get_layer(n, m, TRUE).status = "NoTransformConfigured"

\* C10 amended: without a homography a rectified get_layer of a valid layer fails
\* and returns no layer; it fails with NoTransformConfigured when mask_only is set
\* or the layer's mask is stored, and on the missing mask otherwise.  Without
\* rectification get_layer never fails for the homography.
C10_NoTransform ==
    /\ BEV_trans_mat = None =>
          \A n \in LayerNames, m \in BOOLEAN :
              LET got == get_layer(n, m, TRUE) IN
              /\ got.status # "ok" /\ got.layer = None
              /\ (m \/ MaskOf(n) # None) => got.status = "NoTransformConfigured"
              /\ (~m /\ MaskOf(n) = None) => got.status = "TypeError"
    /\ \A n \in NameInputs, m \in BOOLEAN :
          get_layer(n, m, FALSE).status # "NoTransformConfigured"

\* a rectified layer was refused by an interpreter that holds composed masks
C10_Witness ==
    /\ BEV_trans_mat = None
    /\ ret = Called("get_layer", "NoTransformConfigured")
    /\ composed # None

\* C11: an append of a signal of signal_number values succeeds at every fill level:
\* measure() fails only on its size check, and every well-dimensioned signal it
\* was given has been counted.
C11_AppendNeverFails ==
    ret.op = "measure" =>
        /\ ret.status \in {"ok", "AssertionError"}
        /\ signal_cache_count = Len(offered)

\* the other half of C11, which the code keeps: a signal of another size is refused
\* by the size check and leaves the caches and the counts as they were.
C11_MismatchNoEffect ==
    [][(ret'.op = "measure" /\ ret'.status = "AssertionError") =>
          UNCHANGED <<signals_cache, states_cache, signal_cache_count,
                      state_cache_count>>]_vars

\* a rectified visualisation drew the points of a tracker
Rectified == ret.op \in {"vis_layer", "vis_puzzles"} /\ ret.value # None

\* the points drawn are the tracker's un-rectified points, each through the
\* homography once
C12_DrawnOnce ==
    Rectified =>
        LET drawn == Val(ret.value) IN
        /\ tracker[drawn.layer] # None
        /\ drawn.tpt = perspectiveTransform(Val(tracker[drawn.layer]), Val(BEV_trans_mat))

\* no call of vis_layer or vis_puzzles, whatever it returns or raises, changes a tracker
C12_TrackerKept == [][ret'.op \in {"vis_layer", "vis_puzzles"} => UNCHANGED tracker]_vars

C13_HumanAndBgKept ==
    Composed => /\ human_mask = human_seg.mask
                /\ bg_seg.mask # None
                /\ Val(bg_mask) = TrustHuman(MergeNonROI(Val(bg_seg.mask),
                                                nonROI(Val(depth), Val(height_map))),
                                             Val(human_mask))

\* C13: composition never changes the raw inputs: after process() returns, the
\* mask objects the human, the background and the robot segmenter returned hold
\* the values they held when obtained, for the three layers alike; the object
\* robot_seg.get_mask() returned is the one stored as robot_mask.
C13_RawInputsKept ==
    Composed => /\ C13_HumanAndBgKept
                /\ robot_mask = raw_robot

====
